---- MODULE Spec2Model ----
(***************************************************************************)
(* A model of cms_hospitals_etl.py: the incremental ETL job that reads the *)
(* last-run watermark, fetches and filters the CMS catalog, runs           *)
(* process_dataset on every candidate in a ThreadPoolExecutor and then     *)
(* rewrites the watermark.                                                 *)
(*                                                                         *)
(* Time is a natural number of clock ticks.  A timestamp string is the     *)
(* sequence <<seconds>> or <<seconds, fraction>>, as datetime.isoformat    *)
(* prints it (the fraction is left out when it is zero); <<>> is a missing *)
(* or empty string and <<-1>> a string that is no ISO timestamp.           *)
(***************************************************************************)
EXTENDS Integers, Sequences, FiniteSets, TLC

\* ------------------------------------------------------------- bounds
\* The clock runs over 0..MaxTime.
MaxTime == 3
\* Records in the catalog of the general specification.
MaxCatalog == 1
\* Records in the catalog of the pool specification.
PoolSize == 6
\* Clock ticks per second: the range of a timestamp's fraction.
TicksPerSecond == 2
\* Longest column name drawn from the alphabet.
MaxLen == 3

\* ------------------------------------------------------------- program constants
MAX_WORKERS == 5

Time == 0..MaxTime

VARIABLES
    now,                \* the wall clock, datetime.now()
    api,                \* what API_URL serves: the catalog, a sequence of records
    metadata_file,      \* METADATA_FILE on disk
    output_dir,         \* OUTPUT_DIR: identifier -> state of <identifier>.csv
    pc,                 \* where run_etl_job stands
    last_run_date,      \* run_etl_job's local last_run_date
    datasets,           \* run_etl_job's local cms_provider_hospital_datasets
    submitted,          \* how many futures executor.submit has created
    futures,            \* per candidate: the state of its future
    yielded,            \* the futures as_completed has handed to the loop
    processed_datasets, \* run_etl_job's local processed_datasets
    abort_cause,        \* what exception ended the run, if one did
    meta_at_start,      \* history: METADATA_FILE as the run found it
    wrote,              \* history: identifier -> what this run did to its file
    prev_end,           \* history: how the previous invocation ended
    started_at,         \* history: the clock when this invocation started
    completed_writes,   \* history: identifiers a completed run has written
    failed_at,          \* history: identifier -> last_run saved by the run its download failed in
    col_name,           \* to_snake_case's argument
    col_result,         \* what to_snake_case returned for it
    col_again,          \* what to_snake_case returned for col_result
    norm_pc             \* how often to_snake_case has been applied: "input", "once", "twice"

vars == <<now, api, metadata_file, output_dir, pc, last_run_date, datasets,
          submitted, futures, yielded, processed_datasets, abort_cause,
          meta_at_start, wrote, prev_end, started_at, completed_writes,
          failed_at, col_name, col_result, col_again, norm_pc>>

etl_vars == <<now, api, metadata_file, output_dir, pc, last_run_date, datasets,
              submitted, futures, yielded, processed_datasets, abort_cause,
              meta_at_start, wrote, prev_end, started_at, completed_writes,
              failed_at>>

norm_vars == <<col_name, col_result, col_again, norm_pc>>

\* ------------------------------------------------------------- timestamps
datetime_min == 0
ValueError == -1

\* datetime.isoformat(): the fraction is printed only when it is not zero.
isoformat(t) ==
    IF t % TicksPerSecond = 0
    THEN <<t \div TicksPerSecond>>
    ELSE <<t \div TicksPerSecond, t % TicksPerSecond>>

\* datetime.fromisoformat(): ValueError for a string that is no timestamp.
fromisoformat(s) ==
    IF Len(s) = 1 /\ s[1] >= 0 THEN s[1] * TicksPerSecond
    ELSE IF Len(s) = 2 /\ s[1] >= 0 /\ s[2] \in 0..(TicksPerSecond - 1)
         THEN s[1] * TicksPerSecond + s[2]
    ELSE ValueError

NotADate == <<-1>>
NoString == <<>>

\* ------------------------------------------------------------- metadata store
NoFile == [state |-> "absent", last_run |-> NoString]
Corrupt == [state |-> "corrupt", last_run |-> NoString]
Json(s) == [state |-> "json", last_run |-> s]

\* load_last_update_date(): datetime.min when the file does not exist; json.load
\* or fromisoformat raise (ValueError here) when it exists and cannot be read.
load_last_update_date(file) ==
    IF file.state = "absent" THEN datetime_min
    ELSE IF file.state = "json" THEN fromisoformat(file.last_run)
    ELSE ValueError

update_last_run_date_whole_seconds(t) == Json(<<t \div TicksPerSecond>>)

\* update_last_run_date(): what json.dump leaves in the file.
update_last_run_date(t) == Json(isoformat(t))

\* ------------------------------------------------------------- catalog
Hospitals == <<"Hospitals">>
GeneralHospitals == <<"General", "Hospitals">>
Clinics == <<"Clinics">>
Other == <<"Other">>

\* A label holds the target as a substring: here, as a run of its words.
label_contains(label, target) ==
    \E k \in 1..(Len(label) - Len(target) + 1) :
        SubSeq(label, k, k + Len(target) - 1) = target

theme_matches_substring(theme) ==
    theme # <<>> /\ \E k \in 1..Len(theme) : label_contains(theme[k], Hospitals)

\* "Hospitals" in ds["theme"]: membership in the list of labels.
theme_matches(theme) ==
    theme # <<>> /\ \E k \in 1..Len(theme) : theme[k] = Hospitals

\* fetch_hospital_datasets(): the records whose theme holds "Hospitals", in the
\* catalog's order.
fetch_hospital_datasets(catalog) ==
    LET F[k \in 0..Len(catalog)] ==
            IF k = 0 THEN <<>>
            ELSE IF theme_matches(catalog[k].theme)
                 THEN Append(F[k - 1], catalog[k])
                 ELSE F[k - 1]
    IN F[Len(catalog)]

\* ------------------------------------------------------------- process_dataset
is_unchanged_strict(modified_date, last_run) == modified_date < last_run

\* line 60: modified_date <= last_run_date
is_unchanged(modified_date, last_run) == modified_date <= last_run

checks_distribution_first(dataset, last_run) ==
    IF dataset.identifier = 0 \/ dataset.modified = NoString THEN "missing"
    ELSE IF dataset.distribution = "none" THEN "nodist"
    ELSE IF dataset.distribution = "nourl" THEN "nourl"
    ELSE IF fromisoformat(dataset.modified) = ValueError THEN "raised"
    ELSE IF is_unchanged(fromisoformat(dataset.modified), last_run) THEN "unchanged"
    ELSE "download"

\* Lines 54-73: the early returns of process_dataset, in the code's order, and
\* the ValueError of line 59, which no handler catches.
process_dataset_checks(dataset, last_run) ==
    IF dataset.identifier = 0 \/ dataset.modified = NoString THEN "missing"
    ELSE IF fromisoformat(dataset.modified) = ValueError THEN "raised"
    ELSE IF is_unchanged(fromisoformat(dataset.modified), last_run) THEN "unchanged"
    ELSE IF dataset.distribution = "none" THEN "nodist"
    ELSE IF dataset.distribution = "nourl" THEN "nourl"
    ELSE "download"

download_result_always_id(fault) == "saved"

download_result_propagates(fault) ==
    IF fault = "none" THEN "saved" ELSE "raised"

\* Lines 75-86: every exception of the download, the parse and the write is
\* caught and turned into None.
download_result(fault) ==
    IF fault = "none" THEN "saved" ELSE "failed"

\* What lines 77-81 leave of <identifier>.csv: read_csv failing leaves it alone,
\* to_csv failing after it opened the file leaves a truncated file.
file_after(fault, before) ==
    CASE fault = "none" -> "full"
      [] fault = "read" -> before
      [] fault = "write" -> "partial"

Finished == {"missing", "unchanged", "nodist", "nourl", "failed", "saved", "raised"}
Returned == Finished \ {"raised"}

Running == {j \in DOMAIN futures : futures[j] = "running"}

pool_has_idle_worker_unbounded(n) == TRUE

\* ThreadPoolExecutor(max_workers=MAX_WORKERS): a task starts only on a free thread.
pool_has_idle_worker(n) == n < MAX_WORKERS

\* ------------------------------------------------------------- inputs
\* Fields the code never reads on a path are given one value on that path.
Blank(i, theme) ==
    [identifier |-> i, theme |-> theme, modified |-> NoString,
     distribution |-> "none", fault |-> "none"]

Excluded(i) ==
    {Blank(i, <<>>), Blank(i, <<Clinics>>), Blank(i, <<GeneralHospitals, Other>>)}

Included(i, times) ==
    {Blank(0, <<Hospitals>>), Blank(i, <<Hospitals>>),
     [Blank(i, <<Hospitals>>) EXCEPT !.modified = NotADate]}
    \cup {[Blank(i, <<Hospitals>>) EXCEPT !.modified = isoformat(t), !.distribution = d]
            : t \in times, d \in {"none", "nourl"}}
    \cup {[Blank(i, <<Hospitals>>) EXCEPT !.modified = isoformat(t),
                                          !.distribution = "url", !.fault = f]
            : t \in times, f \in {"none", "read", "write"}}

Records(i) == Excluded(i) \cup Included(i, Time)

Catalogs(n) ==
    LET F[k \in 0..n] ==
            IF k = 0 THEN {<<>>}
            ELSE {Append(c, r) : c \in F[k - 1], r \in Records(k)}
    IN F[n]

Ids == 1..Len(api)

\* ------------------------------------------------------------- Init
InitLocals ==
    /\ pc = "idle"
    /\ last_run_date = datetime_min
    /\ datasets = <<>>
    /\ submitted = 0
    /\ futures = <<>>
    /\ yielded = {}
    /\ processed_datasets = {}
    /\ abort_cause = "none"
    /\ prev_end = "none"
    /\ started_at = 0
    /\ completed_writes = {}
    /\ failed_at = {}
    /\ col_name = <<>>
    /\ col_result = <<>>
    /\ col_again = <<>>
    /\ norm_pc = "input"

Init ==
    /\ now = 0
    /\ \E n \in 0..MaxCatalog :
         api \in Catalogs(n)
    /\ metadata_file = NoFile
    /\ output_dir = [i \in Ids |-> "absent"]
    /\ wrote = [i \in Ids |-> "no"]
    /\ meta_at_start = NoFile
    /\ InitLocals

\* ------------------------------------------------------------- run_etl_job
Ended == {"idle", "done", "aborted", "crashed"}
Alive == {"load", "fetch", "submit", "collect", "unwind", "save", "dump"}

\* A new invocation of the script.
StartRun ==
    /\ pc \in Ended
    /\ pc' = "load"
    /\ prev_end' = pc
    /\ meta_at_start' = metadata_file
    /\ last_run_date' = datetime_min
    /\ datasets' = <<>>
    /\ submitted' = 0
    /\ futures' = <<>>
    /\ yielded' = {}
    /\ processed_datasets' = {}
    /\ abort_cause' = "none"
    /\ wrote' = [i \in Ids |-> "no"]
    /\ started_at' = now
    /\ UNCHANGED <<now, api, metadata_file, output_dir, completed_writes,
                   failed_at, norm_vars>>

LoadMetadata_repairing ==
    /\ pc = "load"
    /\ IF load_last_update_date(metadata_file) = ValueError
       THEN /\ pc' = "aborted"
            /\ abort_cause' = "metadata"
            /\ metadata_file' = NoFile
            /\ UNCHANGED last_run_date
       ELSE /\ pc' = "fetch"
            /\ last_run_date' = load_last_update_date(metadata_file)
            /\ UNCHANGED <<abort_cause, metadata_file>>
    /\ UNCHANGED <<now, api, output_dir, datasets, submitted, futures,
                   yielded, processed_datasets, meta_at_start, wrote, prev_end, started_at,
                   completed_writes, failed_at, norm_vars>>

\* line 91: last_run_date = load_last_update_date()
LoadMetadata ==
    /\ pc = "load"
    /\ IF load_last_update_date(metadata_file) = ValueError
       THEN /\ pc' = "aborted"
            /\ abort_cause' = "metadata"
            /\ UNCHANGED last_run_date
       ELSE /\ pc' = "fetch"
            /\ last_run_date' = load_last_update_date(metadata_file)
            /\ UNCHANGED abort_cause
    /\ UNCHANGED <<now, api, metadata_file, output_dir, datasets, submitted, futures,
                   yielded, processed_datasets, meta_at_start, wrote, prev_end, started_at,
                   completed_writes, failed_at, norm_vars>>

\* line 92, the request failing: requests.get or raise_for_status raises.
FetchFail ==
    /\ pc = "fetch"
    /\ pc' = "aborted"
    /\ abort_cause' = "catalog"
    /\ UNCHANGED <<now, api, metadata_file, output_dir, last_run_date, datasets,
                   submitted, futures, yielded, processed_datasets,
                   meta_at_start, wrote, prev_end, started_at,
                   completed_writes, failed_at, norm_vars>>

\* line 92, the request answering; the round trip takes at least one tick.
FetchOk ==
    /\ pc = "fetch"
    /\ \E dt \in 1..(MaxTime - now) : now' = now + dt
    /\ datasets' = fetch_hospital_datasets(api)
    /\ futures' = [j \in 1..Len(datasets') |-> "pending"]
    /\ pc' = IF Len(datasets') = 0 THEN "collect" ELSE "submit"
    /\ UNCHANGED <<api, metadata_file, output_dir, last_run_date, submitted,
                   yielded, processed_datasets, abort_cause, meta_at_start,
                   wrote, prev_end, started_at,
                   completed_writes, failed_at, norm_vars>>

\* line 97: one executor.submit per candidate, in the list's order.
Submit ==
    /\ pc = "submit"
    /\ submitted < Len(datasets)
    /\ submitted' = submitted + 1
    /\ pc' = IF submitted + 1 = Len(datasets) THEN "collect" ELSE "submit"
    /\ UNCHANGED <<now, api, metadata_file, output_dir, last_run_date, datasets,
                   futures, yielded, processed_datasets, abort_cause,
                   meta_at_start, wrote, prev_end, started_at,
                   completed_writes, failed_at, norm_vars>>

\* A pool thread takes the oldest queued task and runs lines 54-73 of it.
WorkerStart(j) ==
    /\ pc \in {"submit", "collect", "unwind"}
    /\ j \in DOMAIN futures
    /\ j <= submitted
    /\ futures[j] = "pending"
    /\ \A k \in 1..(j - 1) : futures[k] # "pending"
    /\ pool_has_idle_worker(Cardinality(Running))
    /\ LET c == process_dataset_checks(datasets[j], last_run_date)
       IN futures' = [futures EXCEPT ![j] = IF c = "download" THEN "running" ELSE c]
    /\ UNCHANGED <<now, api, metadata_file, output_dir, pc, last_run_date, datasets,
                   submitted, yielded, processed_datasets, abort_cause,
                   meta_at_start, wrote, prev_end, started_at,
                   completed_writes, failed_at, norm_vars>>

WorkerFinish_updates_metadata(j) ==
    /\ pc \in {"submit", "collect", "unwind"}
    /\ j \in DOMAIN futures
    /\ futures[j] = "running"
    /\ metadata_file' = update_last_run_date(now)
    /\ LET ds == datasets[j]
       IN /\ futures' = [futures EXCEPT ![j] = download_result(ds.fault)]
          /\ output_dir' = [output_dir EXCEPT ![ds.identifier] =
                                file_after(ds.fault, output_dir[ds.identifier])]
          /\ wrote' = [wrote EXCEPT ![ds.identifier] =
                                file_after(ds.fault, wrote[ds.identifier])]
    /\ UNCHANGED <<now, api, pc, last_run_date, datasets,
                   submitted, yielded, processed_datasets, abort_cause,
                   meta_at_start, prev_end, started_at,
                   completed_writes, failed_at, norm_vars>>

\* Lines 75-86 of a task: download, parse, rename, write. pd.read_csv(url) has
\* no timeout: a download that hangs never lets the task reach its end.
WorkerFinish(j) ==
    /\ pc \in {"submit", "collect", "unwind"}
    /\ j \in DOMAIN futures
    /\ futures[j] = "running"
    /\ datasets[j].fault # "hang"
    /\ LET ds == datasets[j]
       IN /\ futures' = [futures EXCEPT ![j] = download_result(ds.fault)]
          /\ output_dir' = [output_dir EXCEPT ![ds.identifier] =
                                file_after(ds.fault, output_dir[ds.identifier])]
          /\ wrote' = [wrote EXCEPT ![ds.identifier] =
                                file_after(ds.fault, wrote[ds.identifier])]
    /\ UNCHANGED <<now, api, metadata_file, pc, last_run_date, datasets,
                   submitted, yielded, processed_datasets, abort_cause,
                   meta_at_start, prev_end, started_at,
                   completed_writes, failed_at, norm_vars>>

\* Lines 98-101: as_completed hands over a finished future; result() returns the
\* task's value or raises the task's exception again.
Collect(j) ==
    /\ pc = "collect"
    /\ j \in DOMAIN futures
    /\ j \notin yielded
    /\ futures[j] \in Finished
    /\ IF futures[j] = "raised"
       THEN /\ pc' = "unwind"
            /\ abort_cause' = "worker"
            /\ UNCHANGED <<yielded, processed_datasets>>
       ELSE /\ yielded' = yielded \cup {j}
            /\ processed_datasets' =
                 IF futures[j] = "saved"
                 THEN processed_datasets \cup {datasets[j].identifier}
                 ELSE processed_datasets
            /\ UNCHANGED <<pc, abort_cause>>
    /\ UNCHANGED <<now, api, metadata_file, output_dir, last_run_date, datasets,
                   submitted, futures, meta_at_start, wrote, prev_end, started_at,
                   completed_writes, failed_at, norm_vars>>

PoolExit_no_wait ==
    /\ pc = "collect"
    /\ pc' = "save"
    /\ UNCHANGED <<now, api, metadata_file, output_dir, last_run_date, datasets,
                   submitted, futures, yielded, processed_datasets, abort_cause,
                   meta_at_start, wrote, prev_end, started_at,
                   completed_writes, failed_at, norm_vars>>

\* The with block ends normally: every future was handed over.
PoolExit ==
    /\ pc = "collect"
    /\ yielded = DOMAIN futures
    /\ pc' = "save"
    /\ UNCHANGED <<now, api, metadata_file, output_dir, last_run_date, datasets,
                   submitted, futures, yielded, processed_datasets, abort_cause,
                   meta_at_start, wrote, prev_end, started_at,
                   completed_writes, failed_at, norm_vars>>

\* The with block ends by an exception: shutdown(wait=True) lets every submitted
\* task run to its end, then the exception leaves run_etl_job.
Unwind ==
    /\ pc = "unwind"
    /\ \A j \in DOMAIN futures : futures[j] \in Finished
    /\ pc' = "aborted"
    /\ UNCHANGED <<now, api, metadata_file, output_dir, last_run_date, datasets,
                   submitted, futures, yielded, processed_datasets, abort_cause,
                   meta_at_start, wrote, prev_end, started_at,
                   completed_writes, failed_at, norm_vars>>

\* line 34: open(METADATA_FILE, "w") truncates the file.
SaveOpen ==
    /\ pc = "save"
    /\ metadata_file' = Corrupt
    /\ pc' = "dump"
    /\ UNCHANGED <<now, api, output_dir, last_run_date, datasets, submitted,
                   futures, yielded, processed_datasets, abort_cause,
                   meta_at_start, wrote, prev_end, started_at,
                   completed_writes, failed_at, norm_vars>>

\* History of a run that reached its end: what it wrote, and which downloads
\* failed in it under which saved last_run.
RecordCompletedRun(saved) ==
    /\ completed_writes' = completed_writes \cup {i \in Ids : wrote[i] = "full"}
    /\ failed_at' = failed_at \cup
         {<<datasets[j].identifier, saved>> :
             j \in {k \in DOMAIN futures : futures[k] = "failed"}}

\* The largest `modified` among the datasets the run saved, or t when it is later.
max_modified(t) ==
    LET seen == {t} \cup {fromisoformat(datasets[j].modified) :
                            j \in {k \in DOMAIN futures : futures[k] = "saved"}}
    IN  CHOOSE m \in seen : \A x \in seen : x <= m

SaveDump_max_modified ==
    /\ pc = "dump"
    /\ metadata_file' = update_last_run_date(max_modified(now))
    /\ pc' = "done"
    /\ RecordCompletedRun(max_modified(now))
    /\ UNCHANGED <<now, api, output_dir, last_run_date, datasets, submitted,
                   futures, yielded, processed_datasets, abort_cause,
                   meta_at_start, wrote, prev_end, started_at, norm_vars>>

SaveDump_run_start ==
    /\ pc = "dump"
    /\ metadata_file' = update_last_run_date(started_at)
    /\ pc' = "done"
    /\ RecordCompletedRun(fromisoformat(update_last_run_date(started_at).last_run))
    /\ UNCHANGED <<now, api, output_dir, last_run_date, datasets, submitted,
                   futures, yielded, processed_datasets, abort_cause,
                   meta_at_start, wrote, prev_end, started_at, norm_vars>>

\* line 35: json.dump of datetime.now().isoformat(), and the file is closed.
SaveDump ==
    /\ pc = "dump"
    /\ metadata_file' = update_last_run_date(now)
    /\ pc' = "done"
    /\ RecordCompletedRun(fromisoformat(update_last_run_date(now).last_run))
    /\ UNCHANGED <<now, api, output_dir, last_run_date, datasets, submitted,
                   futures, yielded, processed_datasets, abort_cause,
                   meta_at_start, wrote, prev_end, started_at, norm_vars>>

\* The process is killed.
Crash ==
    /\ pc \in Alive
    /\ pc' = "crashed"
    /\ UNCHANGED <<now, api, metadata_file, output_dir, last_run_date, datasets,
                   submitted, futures, yielded, processed_datasets, abort_cause,
                   meta_at_start, wrote, prev_end, started_at,
                   completed_writes, failed_at, norm_vars>>

Next ==
    \/ StartRun
    \/ LoadMetadata
    \/ FetchFail
    \/ FetchOk
    \/ Submit
    \/ \E j \in 1..(MaxCatalog + PoolSize) : WorkerStart(j)
    \/ \E j \in 1..(MaxCatalog + PoolSize) : WorkerFinish(j)
    \/ \E j \in 1..(MaxCatalog + PoolSize) : Collect(j)
    \/ PoolExit
    \/ Unwind
    \/ SaveOpen
    \/ SaveDump
    \/ Crash

Spec == Init /\ [][Next]_vars

\* ------------------------------------------------------------- the pool specification
\* More candidates than pool threads: PoolSize changed datasets with a download
\* URL, at most one of which has a failing download, an unparsable `modified` or
\* an old `modified`; one run fits before the clock's bound.
Good(i) ==
    [Blank(i, <<Hospitals>>) EXCEPT !.modified = isoformat(1), !.distribution = "url"]

Special(i) ==
    {[Good(i) EXCEPT !.fault = "read"],
     [Good(i) EXCEPT !.modified = NotADate],
     [Good(i) EXCEPT !.modified = isoformat(datetime_min)]}

InitPool ==
    /\ now = MaxTime - 1
    /\ \/ api = [i \in 1..PoolSize |-> Good(i)]
       \/ \E p \in 1..PoolSize : \E r \in Special(p) :
            api = [i \in 1..PoolSize |-> IF i = p THEN r ELSE Good(i)]
    /\ metadata_file = NoFile
    /\ output_dir = [i \in Ids |-> "absent"]
    /\ wrote = [i \in Ids |-> "no"]
    /\ meta_at_start = NoFile
    /\ InitLocals

SpecPool == InitPool /\ [][Next]_vars


\* ------------------------------------------------------------- the fair specification
\* One run over PoolSize changed datasets, at most one of which has a failing
\* download, an unparsable `modified` or a download that never returns; the
\* process is not killed, and every thread that can take a step eventually does.
Hung(i) == [Good(i) EXCEPT !.fault = "hang"]

InitFair ==
    /\ now = MaxTime - 1
    /\ \/ api = [i \in 1..PoolSize |-> Good(i)]
       \/ \E p \in {1, PoolSize} :
            \E r \in {[Good(p) EXCEPT !.fault = "read"],
                      [Good(p) EXCEPT !.modified = NotADate],
                      Hung(p)} :
               api = [i \in 1..PoolSize |-> IF i = p THEN r ELSE Good(i)]
    /\ metadata_file = NoFile
    /\ output_dir = [i \in Ids |-> "absent"]
    /\ wrote = [i \in Ids |-> "no"]
    /\ meta_at_start = NoFile
    /\ InitLocals

NextFair ==
    \/ StartRun
    \/ LoadMetadata
    \/ FetchFail
    \/ FetchOk
    \/ Submit
    \/ \E j \in 1..PoolSize : WorkerStart(j)
    \/ \E j \in 1..PoolSize : WorkerFinish(j)
    \/ \E j \in 1..PoolSize : Collect(j)
    \/ PoolExit
    \/ Unwind
    \/ SaveOpen
    \/ SaveDump

Fairness ==
    /\ WF_vars(LoadMetadata)
    /\ WF_vars(Submit)
    /\ \A j \in 1..PoolSize : WF_vars(WorkerStart(j))
    /\ \A j \in 1..PoolSize : WF_vars(WorkerFinish(j))
    /\ \A j \in 1..PoolSize : WF_vars(Collect(j))
    /\ WF_vars(PoolExit)
    /\ WF_vars(Unwind)
    /\ WF_vars(SaveOpen)
    /\ WF_vars(SaveDump)

SpecFair == InitFair /\ [][NextFair]_vars /\ Fairness

\* ------------------------------------------------------------- to_snake_case
\* A string is a sequence of characters.
Lowered ==
    [A |-> "a", B |-> "b", C |-> "c", D |-> "d", E |-> "e", F |-> "f", G |-> "g",
     H |-> "h", I |-> "i", J |-> "j", K |-> "k", L |-> "l", M |-> "m", N |-> "n",
     O |-> "o", P |-> "p", Q |-> "q", R |-> "r", S |-> "s", T |-> "t", U |-> "u",
     V |-> "v", W |-> "w", X |-> "x", Y |-> "y", Z |-> "z"]

Digits == {"0", "1", "2", "3", "4", "5", "6", "7", "8", "9"}

Whitespace == {" ", "\t"}

lower(s) == [k \in 1..Len(s) |-> IF s[k] \in DOMAIN Lowered THEN Lowered[s[k]] ELSE s[k]]

\* [a-z0-9]
is_alnum(c) == c \in {Lowered[u] : u \in DOMAIN Lowered} \cup Digits

\* re.sub(r"[^a-z0-9]+", "_", s): each maximal run of other characters becomes "_".
re_sub(s) ==
    LET out[k \in 0..Len(s)] ==
            IF k = 0 THEN <<>>
            ELSE IF is_alnum(s[k]) THEN Append(out[k - 1], s[k])
            ELSE IF k > 1 /\ ~is_alnum(s[k - 1]) THEN out[k - 1]
            ELSE Append(out[k - 1], "_")
    IN  out[Len(s)]

\* s.strip(chars)
strip_chars(s, chars) ==
    LET keep == {k \in 1..Len(s) : s[k] \notin chars}
    IN  IF keep = {} THEN <<>>
        ELSE SubSeq(s, CHOOSE k \in keep : \A m \in keep : k <= m,
                       CHOOSE k \in keep : \A m \in keep : m <= k)

\* s.strip()
strip(s) == strip_chars(s, Whitespace)

to_snake_case_strips_underscores(col) == strip_chars(re_sub(lower(col)), Whitespace \cup {"_"})

to_snake_case_strips_first(col) == re_sub(strip_chars(lower(col), Whitespace \cup {"_"}))

to_snake_case(col) == strip(re_sub(lower(col)))

Alphabet == {"A", "a", "1", " ", "_", "-"}

Strings(n) == UNION {[1..k -> Alphabet] : k \in 0..n}

HospitalName ==
    <<" ", " ", "H", "o", "s", "p", "i", "t", "a", "l", "-", "-",
      "N", "a", "m", "e", "!", "!", " ", " ">>

FacilityID == <<"F", "a", "c", "i", "l", "i", "t", "y", " ", "I", "D">>

\* df.columns = [to_snake_case(col) for col in df.columns], for one column
\* name; ApplyAgain feeds the result to to_snake_case once more.
InitNorm ==
    /\ now = 0
    /\ api = <<>>
    /\ metadata_file = NoFile
    /\ output_dir = [i \in Ids |-> "absent"]
    /\ wrote = [i \in Ids |-> "no"]
    /\ meta_at_start = NoFile
    /\ pc = "idle"
    /\ last_run_date = datetime_min
    /\ datasets = <<>>
    /\ submitted = 0
    /\ futures = <<>>
    /\ yielded = {}
    /\ processed_datasets = {}
    /\ abort_cause = "none"
    /\ prev_end = "none"
    /\ started_at = 0
    /\ completed_writes = {}
    /\ failed_at = {}
    /\ col_name \in Strings(MaxLen) \cup {HospitalName, FacilityID}
    /\ col_result = <<>>
    /\ col_again = <<>>
    /\ norm_pc = "input"

Apply ==
    /\ norm_pc = "input"
    /\ col_result' = to_snake_case(col_name)
    /\ norm_pc' = "once"
    /\ UNCHANGED <<col_name, col_again, etl_vars>>

ApplyAgain ==
    /\ norm_pc = "once"
    /\ col_again' = to_snake_case(col_result)
    /\ norm_pc' = "twice"
    /\ UNCHANGED <<col_name, col_result, etl_vars>>

NextNorm ==
    \/ Apply
    \/ ApplyAgain

SpecNorm == InitNorm /\ [][NextNorm]_vars

\* ------------------------------------------------------------- the two-dataset specification
\* A catalog of the dataset A, newer than the saved last_run, and the dataset B,
\* older than it, with or without a third record between them; the metadata
\* file holds the last_run of an earlier run that wrote nothing.
Newer(i) == [Good(i) EXCEPT !.modified = isoformat(2)]

Older(i) == [Good(i) EXCEPT !.modified = isoformat(datetime_min)]

Between(i) ==
    {[Newer(i) EXCEPT !.fault = "read"],
     [Newer(i) EXCEPT !.fault = "write"],
     [Newer(i) EXCEPT !.modified = NotADate],
     [Newer(i) EXCEPT !.theme = <<Other, Hospitals>>],
     Blank(i, <<GeneralHospitals, Other>>),
     Blank(i, <<Clinics>>),
     Blank(i, <<>>)}

InitPair ==
    /\ now = 1
    /\ \/ api = <<Newer(1), Older(2)>>
       \/ \E r \in Between(2) : api = <<Newer(1), r, Older(3)>>
    /\ metadata_file = Json(isoformat(1))
    /\ output_dir = [i \in Ids |-> "absent"]
    /\ wrote = [i \in Ids |-> "no"]
    /\ meta_at_start = Json(isoformat(1))
    /\ InitLocals

SpecPair == InitPair /\ [][Next]_vars

\* ------------------------------------------------------------- claims
Mod(ds) == fromisoformat(ds.modified)
HasFields(ds) == ds.identifier # 0 /\ ds.modified # NoString
Parsable(ds) == HasFields(ds) /\ Mod(ds) # ValueError
PassOver == pc \in {"save", "dump", "done"} \/ (pc = "aborted" /\ abort_cause = "worker")

\* C1 as claimed: a candidate's file is written in the run if and only if its
\* `modified` is strictly greater than the last_run the run loaded.
C1_WrittenIffNewer ==
    \A j \in DOMAIN futures :
        (futures[j] \in Finished /\ Parsable(datasets[j])) =>
            (wrote[datasets[j].identifier] = "full" <=> Mod(datasets[j]) > last_run_date)

\* C1 as amended: a file is touched in the run only if its dataset is a candidate
\* whose `modified` is strictly greater than the loaded last_run, and it is
\* written completely if and only if, moreover, the first distribution has a
\* download URL and the download, the parse and the write succeed.
C1_WrittenOnlyIfNewer ==
    /\ \A i \in Ids :
         wrote[i] # "no" =>
            \E j \in DOMAIN futures :
                /\ datasets[j].identifier = i
                /\ Parsable(datasets[j])
                /\ Mod(datasets[j]) > last_run_date
    /\ \A j \in DOMAIN futures :
         (futures[j] \in Finished /\ datasets[j].identifier # 0) =>
            (wrote[datasets[j].identifier] = "full" <=>
                /\ Parsable(datasets[j])
                /\ Mod(datasets[j]) > last_run_date
                /\ datasets[j].distribution = "url"
                /\ datasets[j].fault = "none")

C1_Witness ==
    /\ pc = "done"
    /\ last_run_date > datetime_min
    /\ \E j \in DOMAIN futures :
         /\ futures[j] = "saved"
         /\ wrote[datasets[j].identifier] = "full"
         /\ Mod(datasets[j]) > last_run_date

\* C2: with an identifier, a download URL and a download that succeeds,
\* process_dataset skips (and writes nothing) when modified <= last_run and
\* saves when modified = last_run + 1; and whatever the distribution is, a
\* dataset that is not newer is answered by the staleness check: it is never
\* downloaded and never reported as lacking a distribution or a URL.
C2_StalenessGate ==
    \A j \in DOMAIN futures :
        LET ds == datasets[j] IN
        /\ (Parsable(ds) /\ Mod(ds) <= last_run_date) =>
               /\ futures[j] \in {"pending", "unchanged"}
               /\ wrote[ds.identifier] = "no"
        /\ (Parsable(ds) /\ futures[j] \in Finished
              /\ ds.distribution = "url" /\ ds.fault = "none"
              /\ Mod(ds) = last_run_date + 1) =>
               /\ futures[j] = "saved"
               /\ wrote[ds.identifier] = "full"

C2_Witness ==
    /\ last_run_date > datetime_min
    /\ \E j \in DOMAIN futures :
         /\ futures[j] = "unchanged"
         /\ datasets[j].distribution = "none"
         /\ Mod(datasets[j]) = last_run_date
         /\ wrote[datasets[j].identifier] = "no"

\* The other boundary of C2: a dataset one tick newer than last_run, saved.
C2_WitnessNext ==
    /\ last_run_date > datetime_min
    /\ \E j \in DOMAIN futures :
         /\ futures[j] = "saved"
         /\ Mod(datasets[j]) = last_run_date + 1

\* C3: a failure of the download, the parse or the write of a dataset comes back
\* as None and never as an exception; once the concurrent phase is over, every
\* changed dataset with a download URL whose own download did not fail has its
\* file written; the only exception a worker raises is the ValueError of an
\* unparsable `modified`, so that a run whose candidates' `modified` all parse is
\* never aborted by a worker, however many downloads fail; and a run that
\* reaches its end has saved the metadata.
C3_FailureIsolation ==
    /\ \A j \in DOMAIN futures :
         (futures[j] \in Finished /\ Parsable(datasets[j])
            /\ Mod(datasets[j]) > last_run_date
            /\ datasets[j].distribution = "url") =>
               IF datasets[j].fault = "none"
               THEN futures[j] = "saved"
               ELSE futures[j] = "failed"
    /\ PassOver =>
         \A j \in DOMAIN futures :
            (Parsable(datasets[j]) /\ Mod(datasets[j]) > last_run_date
               /\ datasets[j].distribution = "url" /\ datasets[j].fault = "none") =>
                  /\ wrote[datasets[j].identifier] = "full"
                  /\ output_dir[datasets[j].identifier] = "full"
    /\ \A j \in DOMAIN futures :
         futures[j] = "raised" => (HasFields(datasets[j]) /\ Mod(datasets[j]) = ValueError)
    /\ (\A j \in DOMAIN futures : Parsable(datasets[j]) \/ ~HasFields(datasets[j])) =>
         (pc # "unwind" /\ abort_cause # "worker")
    /\ pc = "done" =>
         /\ yielded = DOMAIN futures
         /\ metadata_file = Json(isoformat(now))

C3_Witness ==
    /\ pc = "done"
    /\ metadata_file.state = "json"
    /\ Cardinality({j \in DOMAIN futures : futures[j] = "failed"}) = 1
    /\ Cardinality({i \in Ids : wrote[i] = "full"}) >= 4
    /\ \A j \in DOMAIN futures :
         futures[j] # "failed" => wrote[datasets[j].identifier] = "full"

\* C4 as claimed: whatever the record holds, process_dataset returns the
\* identifier or nothing and never raises, so that only the metadata load and
\* the catalog fetch can abort a run.
C4_NeverRaises ==
    /\ \A j \in DOMAIN futures : futures[j] \in {"pending", "running"} \cup Returned
    /\ abort_cause \in {"none", "metadata", "catalog"}

\* C5: the metadata file is written only after every submitted process_dataset
\* has finished; at every earlier point of a run, and after a run that was
\* aborted or killed before the save, it is what the run found.
C5_SaveOnlyAfterPass ==
    /\ pc \in {"load", "fetch", "submit", "collect", "unwind", "save", "aborted"} =>
         metadata_file = meta_at_start
    /\ metadata_file # meta_at_start =>
         /\ submitted = Len(datasets)
         /\ \A j \in DOMAIN futures : futures[j] \in Finished
         /\ yielded = DOMAIN futures
    /\ (pc = "crashed" /\ \E j \in DOMAIN futures : futures[j] \notin Finished) =>
         metadata_file = meta_at_start

C5_Witness ==
    /\ pc = "crashed"
    /\ meta_at_start.state = "json"
    /\ metadata_file = meta_at_start
    /\ \E j \in DOMAIN futures : futures[j] = "running"

\* C6 as claimed: once the metadata load and the catalog fetch have succeeded, a
\* run whose processing attempts have all completed ends by saving a new
\* last_run, not earlier than the old one, whatever the attempts' outcomes.
C6_AlwaysPersists ==
    /\ (pc = "aborted" /\ \A j \in DOMAIN futures : futures[j] \in Finished) =>
         abort_cause \in {"metadata", "catalog"}
    /\ pc = "done" =>
         /\ metadata_file.state = "json"
         /\ fromisoformat(metadata_file.last_run) >= last_run_date

\* C7 as claimed: the run after a completed run, on the same catalog, writes no
\* file, reports nothing processed and saves a later last_run.
C7_SecondRunWritesNothing ==
    (pc = "done" /\ prev_end = "done") =>
        /\ \A i \in Ids : wrote[i] = "no"
        /\ processed_datasets = {}
        /\ fromisoformat(metadata_file.last_run) > last_run_date

\* C7 as amended: the same, for a catalog in which no candidate's `modified` is
\* later than the last_run the first run saved.
C7_SecondRunWritesNothingUnlessFuture ==
    (pc = "done" /\ prev_end = "done"
       /\ \A j \in DOMAIN futures :
            Parsable(datasets[j]) => Mod(datasets[j]) <= last_run_date) =>
        /\ \A i \in Ids : wrote[i] = "no"
        /\ processed_datasets = {}
        /\ metadata_file.state = "json"
        /\ fromisoformat(metadata_file.last_run) > last_run_date

C7_Witness ==
    /\ pc = "done"
    /\ prev_end = "done"
    /\ processed_datasets = {}
    /\ \E j \in DOMAIN futures :
         /\ futures[j] = "unchanged"
         /\ datasets[j].distribution = "url"
         /\ datasets[j].fault = "none"
         /\ output_dir[datasets[j].identifier] = "full"
         /\ wrote[datasets[j].identifier] = "no"

\* C8: at most MAX_WORKERS process_dataset calls are in flight; every candidate
\* the filter returned has one future, submitted once; and run_etl_job is past
\* the concurrent phase only when every one of them has finished, whether it
\* returned an identifier or nothing.
C8_BoundedPool ==
    /\ Cardinality(Running) <= MAX_WORKERS
    /\ submitted <= Len(datasets)
    /\ \A j \in DOMAIN futures : futures[j] # "pending" => j <= submitted
    /\ (pc \in {"submit", "collect", "unwind", "save", "dump", "done"}
          \/ abort_cause = "worker") =>
         /\ datasets = fetch_hospital_datasets(api)
         /\ DOMAIN futures = 1..Len(datasets)
    /\ pc \in {"collect", "unwind", "save", "dump", "done"} => submitted = Len(datasets)
    /\ pc \in {"save", "dump", "done", "aborted"} =>
         /\ \A j \in DOMAIN futures : futures[j] \in Finished
         /\ submitted = Len(datasets) \/ abort_cause \in {"metadata", "catalog"}
    /\ pc \in {"save", "dump", "done"} => yielded = DOMAIN futures

C8_Witness ==
    /\ Cardinality(Running) = MAX_WORKERS
    /\ submitted = Len(datasets)
    /\ \E j \in DOMAIN futures : futures[j] = "pending"

\* C9: a run aborted by the metadata load (the file is there and unreadable, not
\* absent) or by the catalog fetch has started no process_dataset, has touched
\* no output file and has left the metadata file as it found it.
C9_FatalBeforeProcessing ==
    (pc = "aborted" /\ abort_cause \in {"metadata", "catalog"}) =>
        /\ submitted = 0
        /\ futures = <<>>
        /\ \A i \in Ids : wrote[i] = "no"
        /\ metadata_file = meta_at_start
        /\ abort_cause = "metadata" => meta_at_start.state = "corrupt"

C9_Witness ==
    /\ pc = "aborted"
    /\ abort_cause = "metadata"
    /\ \E i \in Ids : output_dir[i] = "full"

\* C10 as claimed: load returns the timestamp the last save wrote; with no
\* metadata file it returns the minimum timestamp without failing, and on such a
\* first run every candidate with an identifier, a `modified` timestamp and a
\* first download URL passes the staleness check.
C10_FirstRunProcessesAll ==
    /\ pc = "done" => metadata_file = Json(isoformat(now))
    /\ (pc \in Alive \ {"load"} /\ meta_at_start.state = "json") =>
         isoformat(last_run_date) = meta_at_start.last_run
    /\ (pc \in Alive \ {"load"} /\ meta_at_start.state = "absent") =>
         last_run_date = datetime_min
    /\ \A j \in DOMAIN futures :
         (meta_at_start.state = "absent" /\ futures[j] \in Finished
            /\ Parsable(datasets[j]) /\ datasets[j].distribution = "url") =>
               futures[j] \in {"saved", "failed"}


\* The positions of the catalog whose theme has the label "Hospitals".
KeptPositions == {k \in 1..Len(api) : \E m \in 1..Len(api[k].theme) : api[k].theme[m] = Hospitals}
SubstringPositions ==
    {k \in 1..Len(api) :
        \E m \in 1..Len(api[k].theme) : label_contains(api[k].theme[m], Hospitals)}
NthOf(S, j) == CHOOSE k \in S : Cardinality({m \in S : m < k}) = j - 1
Fetched == pc \in {"submit", "collect", "unwind", "save", "dump", "done"}

\* C11 as claimed: the candidates are the catalog's records with a theme of which
\* some label contains "Hospitals" as a substring, in the catalog's order.
C11_SubstringFilter ==
    Fetched =>
        /\ Len(datasets) = Cardinality(SubstringPositions)
        /\ \A j \in 1..Len(datasets) : datasets[j] = api[NthOf(SubstringPositions, j)]

\* C11 as amended: the candidates are the catalog's records with a theme of which
\* some label is "Hospitals" itself (membership in the list of labels), in the
\* catalog's order; a theme of "General Hospitals" and "Other" is dropped.
C11_MembershipFilter ==
    Fetched =>
        /\ Len(datasets) = Cardinality(KeptPositions)
        /\ \A j \in 1..Len(datasets) : datasets[j] = api[NthOf(KeptPositions, j)]
        /\ \A k \in 1..Len(api) :
             api[k].theme \in {<<>>, <<Clinics>>, <<GeneralHospitals, Other>>} =>
                \A j \in 1..Len(datasets) : datasets[j] # api[k]

C11_Witness ==
    /\ Fetched
    /\ Len(api) = 3
    /\ api[2].theme = <<GeneralHospitals, Other>>
    /\ datasets = <<api[1], api[3]>>

\* C14: process_dataset returns an identifier only when the file was written
\* completely; the identifiers collected are those of files written in the run;
\* at the end of a run their number is the number of files the run wrote; with
\* the candidates A (newer, with a URL) and B (older), exactly A.csv is written
\* and one dataset is reported.
C14_CountIsWrites ==
    /\ \A j \in DOMAIN futures :
         futures[j] = "saved" =>
            /\ wrote[datasets[j].identifier] = "full"
            /\ output_dir[datasets[j].identifier] = "full"
    /\ processed_datasets \subseteq {i \in Ids : wrote[i] = "full"}
    /\ pc \in {"save", "dump", "done"} =>
         /\ processed_datasets = {i \in Ids : wrote[i] = "full"}
         /\ Cardinality(processed_datasets) =
              Cardinality({j \in DOMAIN futures : futures[j] = "saved"})
    /\ (pc = "done" /\ Len(datasets) = 2 /\ last_run_date = 1
          /\ datasets[1] = Newer(datasets[1].identifier)
          /\ datasets[2] = Older(datasets[2].identifier)) =>
         /\ Cardinality(processed_datasets) = 1
         /\ {i \in Ids : wrote[i] # "no"} = {datasets[1].identifier}

C14_Witness ==
    /\ pc = "done"
    /\ Len(datasets) = 2
    /\ processed_datasets = {datasets[1].identifier}
    /\ wrote[datasets[1].identifier] = "full"
    /\ output_dir[datasets[2].identifier] = "absent"
    /\ futures = <<"saved", "unchanged">>


\* C12 as claimed: whitespace at either end of the input contributes no
\* underscore: "  Hospital--Name!!  " gives "hospital_name" and "Facility ID"
\* gives "facility_id".
C12_EndsTrimmed ==
    norm_pc # "input" =>
        /\ (col_name = HospitalName =>
              col_result = <<"h", "o", "s", "p", "i", "t", "a", "l", "_", "n", "a", "m", "e">>)
        /\ (col_name = FacilityID =>
              col_result = <<"f", "a", "c", "i", "l", "i", "t", "y", "_", "i", "d">>)

\* C12 as amended: every maximal run of characters outside [a-z0-9], at the ends
\* of the input too, gives exactly one underscore, and the final trim removes
\* nothing: "  Hospital--Name!!  " gives "_hospital_name_", "Facility ID" gives
\* "facility_id"; the result starts (ends) with an underscore exactly when the
\* input starts (ends) with a character that is no letter and no digit.
C12_EndsKeepUnderscore ==
    norm_pc # "input" =>
        /\ (col_name = HospitalName =>
              col_result = <<"_", "h", "o", "s", "p", "i", "t", "a", "l", "_",
                             "n", "a", "m", "e", "_">>)
        /\ (col_name = FacilityID =>
              col_result = <<"f", "a", "c", "i", "l", "i", "t", "y", "_", "i", "d">>)
        /\ (col_name = <<>>) = (col_result = <<>>)
        /\ col_name # <<>> =>
              /\ (col_result[1] = "_") = ~is_alnum(lower(col_name)[1])
              /\ (col_result[Len(col_result)] = "_")
                    = ~is_alnum(lower(col_name)[Len(col_name)])
        /\ \A k \in 1..Len(col_result) :
              /\ is_alnum(col_result[k]) \/ col_result[k] = "_"
              /\ k > 1 => ~(col_result[k] = "_" /\ col_result[k - 1] = "_")

C12_Witness ==
    /\ norm_pc = "once"
    /\ col_name = HospitalName
    /\ Len(col_result) = 15

\* C13: to_snake_case is idempotent on the strings over an alphabet of an
\* upper-case letter, a lower-case letter, a digit, a blank, the underscore and
\* a punctuation mark: applying it to its own result changes nothing.
C13_Idempotent ==
    norm_pc = "twice" => col_again = col_result

C13_Witness ==
    /\ norm_pc = "twice"
    /\ col_name = <<"-", "_", "A">>
    /\ col_result = <<"_", "a">>
    /\ col_again = <<"_", "a">>


\* The timestamp in the metadata file, when it holds one.
Saved == fromisoformat(metadata_file.last_run)

\* C15 as claimed: the timestamp a run persists is the time the run started,
\* and a candidate whose `modified` lies between the start and the end of the
\* run is not skipped as unchanged under the persisted timestamp.
C15_SavedIsRunStart ==
    pc = "done" =>
        /\ Saved = started_at
        /\ \A k \in 1..Len(datasets) :
             (Parsable(datasets[k]) /\ started_at < Mod(datasets[k]) /\ Mod(datasets[k]) <= now)
                => process_dataset_checks(datasets[k], load_last_update_date(metadata_file))
                      # "unchanged"

\* C15 as amended: the timestamp a run persists is the clock when the save is
\* executed, after the whole dataset pass and later than the start of the run
\* and the catalog fetch; a candidate whose `modified` lies between the start and
\* the end of the run is skipped as unchanged by a run that loads it.
C15_SavedIsSaveTime ==
    pc = "done" =>
        /\ Saved = now
        /\ Saved > started_at
        /\ load_last_update_date(metadata_file) = now
        /\ \A k \in 1..Len(datasets) :
             (Parsable(datasets[k]) /\ started_at < Mod(datasets[k]) /\ Mod(datasets[k]) <= now)
                => process_dataset_checks(datasets[k], load_last_update_date(metadata_file))
                      = "unchanged"

\* A run that follows a completed run skips a candidate modified at the very
\* end of that run, later than its start.
C15_Witness ==
    /\ pc = "done"
    /\ prev_end = "done"
    /\ Saved = now
    /\ last_run_date > datetime_min
    /\ \E k \in 1..Len(datasets) :
         /\ Parsable(datasets[k])
         /\ Mod(datasets[k]) = last_run_date
         /\ futures[k] = "unchanged"


\* C16 as claimed: once a completed run has written a dataset whose `modified`
\* is later than the clock, no later run touches its file again.
C16_FutureWrittenOnce ==
    pc \in Alive =>
        \A j \in DOMAIN futures :
            (Parsable(datasets[j]) /\ Mod(datasets[j]) > now
               /\ datasets[j].identifier \in completed_writes)
                => wrote[datasets[j].identifier] = "no"

\* C16 as amended: a candidate whose `modified` is later than the clock is never
\* skipped as unchanged, since every saved last_run is a past clock value: each
\* run processes it again, and writes it again when its download succeeds,
\* whether or not an earlier run wrote it; a candidate is skipped only once the
\* loaded last_run has reached its `modified`.
C16_FutureRewrittenEveryRun ==
    /\ last_run_date <= now
    /\ \A j \in DOMAIN futures :
         (Parsable(datasets[j]) /\ Mod(datasets[j]) > now) =>
            /\ futures[j] # "unchanged"
            /\ (futures[j] \in Finished /\ datasets[j].distribution = "url"
                  /\ datasets[j].fault = "none")
                 => (futures[j] = "saved" /\ wrote[datasets[j].identifier] = "full")
    /\ \A j \in DOMAIN futures :
         (Parsable(datasets[j]) /\ futures[j] = "unchanged") =>
            Mod(datasets[j]) <= last_run_date

C16_Witness ==
    /\ pc \in Alive
    /\ \E j \in DOMAIN futures :
         /\ Parsable(datasets[j])
         /\ Mod(datasets[j]) > now
         /\ datasets[j].identifier \in completed_writes
         /\ futures[j] = "saved"
         /\ wrote[datasets[j].identifier] = "full"


\* C17: at every observable point <identifier>.csv is absent or holds a complete
\* table, the previous or the new one; a write that fails part-way leaves the
\* file as it was before the run touched it.
C17_AtomicReplace ==
    /\ \A i \in Ids : output_dir[i] \in {"absent", "full"}
    /\ \A j \in DOMAIN futures :
         futures[j] = "failed" => wrote[datasets[j].identifier] = "no"


\* A submitted process_dataset that has not finished.
InFlight == {j \in DOMAIN futures : j <= submitted /\ futures[j] \notin Finished}

\* A step of a run that is under way reads the metadata file only at line 91 and
\* writes it only at line 104, and does neither while a worker is in flight.
MetadataAccessOutsidePool ==
    pc \in Alive =>
        /\ metadata_file' # metadata_file =>
             (pc \in {"save", "dump"} /\ InFlight = {})
        /\ last_run_date' # last_run_date =>
             (pc = "load" /\ last_run_date' = load_last_update_date(metadata_file))
        /\ InFlight # {} =>
             (metadata_file' = metadata_file /\ last_run_date' = last_run_date)

\* C18: within a run the metadata file is read only by line 91, before the
\* first submit, and written only by line 104, after every worker has finished;
\* no step taken while a worker is in flight reads or writes it.
C18_MetadataOutsideConcurrentPhase ==
    /\ [](pc = "load" => (submitted = 0 /\ futures = <<>>))
    /\ [](pc \in {"save", "dump"} => (InFlight = {} /\ submitted = Len(datasets)))
    /\ [][MetadataAccessOutsidePool]_vars

C18_Witness ==
    /\ pc = "collect"
    /\ Cardinality(InFlight) >= 2
    /\ Cardinality(Running) >= 2
    /\ last_run_date = 1
    /\ metadata_file = Json(isoformat(1))


\* C19: a run in which a changed dataset's download, parse or write failed
\* still ends by saving the clock as last_run; in every later run the dataset
\* is skipped as unchanged, and its file is left as the failure left it, as long
\* as its `modified` is not later than the last_run that run saved.
C19_FailedNeverRetried ==
    /\ pc = "done" =>
         \A j \in DOMAIN futures :
            futures[j] = "failed" =>
               /\ Saved = now
               /\ Saved > last_run_date
               /\ <<datasets[j].identifier, Saved>> \in failed_at
    /\ pc \in Alive =>
         \A j \in DOMAIN futures : \A f \in failed_at :
            (f[1] = datasets[j].identifier /\ Parsable(datasets[j]) /\ Mod(datasets[j]) <= f[2])
               => /\ futures[j] \in {"pending", "unchanged"}
                  /\ wrote[datasets[j].identifier] = "no"

C19_Witness ==
    /\ pc = "collect"
    /\ \E j \in DOMAIN futures : \E f \in failed_at :
         /\ f[1] = datasets[j].identifier
         /\ Parsable(datasets[j])
         /\ Mod(datasets[j]) <= f[2]
         /\ datasets[j].distribution = "url"
         /\ futures[j] = "unchanged"
         /\ output_dir[datasets[j].identifier] \in {"absent", "partial"}


\* No candidate's download hangs.
EveryDownloadReturns == \A j \in DOMAIN futures : datasets[j].fault # "hang"

\* C20: under fair scheduling, a run whose metadata load and catalog fetch have
\* succeeded and whose downloads all return or fail eventually ends with every
\* candidate processed and the metadata saved.
C20_FairRunCompletes ==
    (pc \in {"submit", "collect"} /\ EveryDownloadReturns)
        ~> (/\ pc = "done"
            /\ metadata_file = update_last_run_date(now)
            /\ \A j \in DOMAIN futures : futures[j] \in Finished)

====
